---- MODULE Spec2Model ----
(***************************************************************************)
(* Model of the wigglegram export pipeline: the React state of App.tsx     *)
(* (frames, crop, export settings, the rendered closure the handlers see), *)
(* the asynchronous export handler, and lib/rendering.ts (generateFrames,  *)
(* makeGif, makeMp4, the process-wide FFmpeg engine and its virtual file   *)
(* system).                                                                *)
(*                                                                         *)
(* Encoding of JavaScript values: undefined/null numbers and URLs are 0,   *)
(* an absent string is "", object URLs are indices into objectUrls.        *)
(***************************************************************************)
EXTENDS Integers, Sequences, FiniteSets, TLC

\* ------------------------------------------------------------------ bounds
MaxFileSelects == 3
MaxSettingChanges == 2
MaxCropEdits == 1
MaxAdjustments == 1
MaxExports == 2
MaxFrames == 3
MaxRefusedExports == 1
MaxDeclinedRemoves == 1

\* ------------------------------------------------------- program constants
MINIMUM_FRAMES == 2
MIN_CROP_SIZE == 50
MAX_CROP_SIZE == 4096
DEFAULT_WIGGLE_SPEED == 160
EXPORT_INTERVAL_FLOOR == 60
VIDEO_INTERVAL_FLOOR == 40
PAD_WIDTH == 3

DEFAULT_CROP == [width |-> 640, height |-> 480]

ExportQuality == {"low", "medium", "high"}
ExportFormat == {"gif", "mp4"}

\* ------------------------------------------------- the environment's inputs
\* Files the user can pick: what decoding each of them yields.
Files == {"tiny", "mid", "broken"}
FileDecodes(f) == f # "broken"
FileSize(f) ==
  IF f = "tiny" THEN [width |-> 30, height |-> 40]
  ELSE IF f = "mid" THEN [width |-> 100, height |-> 80]
  ELSE [width |-> 0, height |-> 0]

CropInputs == {0, 5000}
CropDeltas == {100, -100}
SpeedInputs == {-10, 0, 1500}
PRESET_SIZES == {[width |-> 1080, height |-> 1920]}
\* intervals a caller of makeMp4 can pass
IntervalInputs == {-10, 0, 1, 39, 40, 41, 60, 70, 160, 300, 999, 1000, 1001, 1500}
\* key and value of an adjustment control
AdjustInputs == {<<"offsetX", 10>>, <<"offsetY", -4>>, <<"rotation", 90>>, <<"scale", 200>>}

\* ------------------------------------------------------------ pure helpers
Min2(a, b) == IF a < b THEN a ELSE b
Max2(a, b) == IF a > b THEN a ELSE b

clamp(value, min, max) == Min2(max, Max2(min, value))

RECURSIVE SeqMin(_)
SeqMin(s) == IF Len(s) = 1 THEN s[1] ELSE Min2(s[1], SeqMin(Tail(s)))

\* scale is kept in hundredths (100 stands for 1), rotation in degrees
NoAdjustments == [offsetX |-> 0, offsetY |-> 0, rotation |-> 0, scale |-> 100]

createBlankImage(id) ==
  [id |-> id, objectUrl |-> 0, naturalWidth |-> 0, naturalHeight |-> 0,
   adjustments |-> NoAdjustments, isLoaded |-> FALSE, error |-> ""]

\* cropLimits of a frame list: the smallest known natural size, or the
\* global maximum when no natural size is known.
cropLimits(imgs) ==
  LET loaded == SelectSeq(imgs,
                  LAMBDA image : image.naturalWidth # 0 /\ image.naturalHeight # 0)
  IN IF Len(loaded) = 0
       THEN [width |-> MAX_CROP_SIZE, height |-> MAX_CROP_SIZE]
       ELSE [width |-> SeqMin([i \in 1..Len(loaded) |-> loaded[i].naturalWidth]),
             height |-> SeqMin([i \in 1..Len(loaded) |-> loaded[i].naturalHeight])]

loadedImages(imgs) == SelectSeq(imgs, LAMBDA image : image.objectUrl # 0)

\* ------------------------------------------------- rendering.ts: pure parts
Digits == <<"0", "1", "2", "3", "4", "5", "6", "7", "8", "9">>

RECURSIVE toString(_)
toString(n) ==
  IF n < 10 THEN Digits[n + 1] ELSE toString(n \div 10) \o Digits[(n % 10) + 1]

RECURSIVE padStart(_, _, _)
padStart(str, targetLength, padString) ==
  IF Len(str) >= targetLength THEN str
  ELSE padStart(padString \o str, targetLength, padString)

\* mutant of FrameName: the index is not padded
FrameNameUnpadded(index) == "frame_" \o toString(index) \o ".png"

FrameName(index) == "frame_" \o padStart(toString(index), PAD_WIDTH, "0") \o ".png"
OutputName == "output.mp4"
FileNames == {FrameName(i) : i \in 0..(MaxFrames - 1)} \cup {OutputName}
NoFile == [owner |-> 0, data |-> <<>>]

\* A data URL is modelled by its comma-separated parts, as split(',') yields
\* them: <<header, data>>; the data part is a tuple standing for the bytes.
PngHeader == "data:image/png;base64"
GifHeader == "data:image/gif;base64"

\* header.match(/data:(.*);base64/)?.[1] ?? 'image/gif'
mimeType(header) ==
  IF header = PngHeader THEN "image/png"
  ELSE IF header = GifHeader THEN "image/gif"
  ELSE IF header = "data:;base64" THEN ""
  ELSE "image/gif"

dataUrlToBlob(dataUrl) ==
  IF Len(dataUrl) < 2 \/ dataUrl[1] = "" \/ dataUrl[2] = <<>>
    THEN [ok |-> FALSE, error |-> "Invalid image data.", type |-> "", bytes |-> <<>>]
    ELSE [ok |-> TRUE, error |-> "", type |-> mimeType(dataUrl[1]), bytes |-> dataUrl[2]]

\* The canvas transformation matrix: x' = a x + c y + e, y' = b x + d y + f,
\* with a, b, c, d in hundredths and e, f in half pixels. Rotations are by
\* multiples of 90 degrees.
identityMatrix == [a |-> 100, b |-> 0, c |-> 0, d |-> 100, e |-> 0, f |-> 0]

cosDegrees(degrees) ==
  IF degrees % 360 = 0 THEN 1 ELSE IF degrees % 360 = 180 THEN -1 ELSE 0
sinDegrees(degrees) ==
  IF degrees % 360 = 90 THEN 1 ELSE IF degrees % 360 = 270 THEN -1 ELSE 0

\* context.translate(x, y), x and y given in half pixels
translate(m, x, y) ==
  [m EXCEPT !.e = @ + (m.a * x + m.c * y) \div 100,
            !.f = @ + (m.b * x + m.d * y) \div 100]

\* context.rotate((degrees * Math.PI) / 180)
rotate(m, degrees) ==
  [m EXCEPT !.a = m.a * cosDegrees(degrees) + m.c * sinDegrees(degrees),
            !.b = m.b * cosDegrees(degrees) + m.d * sinDegrees(degrees),
            !.c = m.c * cosDegrees(degrees) - m.a * sinDegrees(degrees),
            !.d = m.d * cosDegrees(degrees) - m.b * sinDegrees(degrees)]

\* context.scale(s, s), s in hundredths
scale(m, s) ==
  [m EXCEPT !.a = (@ * s) \div 100, !.b = (@ * s) \div 100,
            !.c = (@ * s) \div 100, !.d = (@ * s) \div 100]

\* mutant of drawOrigin: the image is drawn from the origin
drawOriginTopLeft(natural) == [x |-> 0, y |-> 0]

\* drawImage(element, -naturalWidth / 2, -naturalHeight / 2), in half pixels
drawOrigin(natural) == [x |-> -natural.width, y |-> -natural.height]

\* the matrix renderFrame has built when it calls drawImage
frameMatrix(c, adjustments) ==
  scale(rotate(translate(identityMatrix,
                         c.width + 2 * adjustments.offsetX,
                         c.height + 2 * adjustments.offsetY),
               adjustments.rotation),
        adjustments.scale)

\* The point of the source image drawn at canvas point (x, y): its
\* coordinates are x / den and y / den (nothing is drawn when den = 0).
sourceOf(m, origin, x, y) ==
  LET det == m.a * m.d - m.b * m.c
      rx == 100 * (2 * x - m.e)
      ry == 100 * (2 * y - m.f)
  IN [x |-> m.d * rx - m.c * ry - origin.x * det,
      y |-> m.a * ry - m.b * rx - origin.y * det,
      den |-> 2 * det]

GIF_QUALITY_SETTINGS(quality) ==
  IF quality = "high" THEN [sampleInterval |-> 1, gifQuality |-> 1]
  ELSE IF quality = "medium" THEN [sampleInterval |-> 2, gifQuality |-> 5]
  ELSE [sampleInterval |-> 4, gifQuality |-> 10]

\* mutant of VIDEO_QUALITY_SETTINGS: the low and high tiers swapped
VIDEO_QUALITY_SETTINGS_Swapped(quality) ==
  IF quality = "low" THEN [crf |-> "18", preset |-> "slow"]
  ELSE IF quality = "medium" THEN [crf |-> "23", preset |-> "medium"]
  ELSE [crf |-> "28", preset |-> "faster"]

VIDEO_QUALITY_SETTINGS(quality) ==
  IF quality = "high" THEN [crf |-> "18", preset |-> "slow"]
  ELSE IF quality = "medium" THEN [crf |-> "23", preset |-> "medium"]
  ELSE [crf |-> "28", preset |-> "faster"]

\* Math.max(1, 1000 / Math.max(intervalMs, 40)).toFixed(2)
\* mutant of fps: no floor under the interval
fpsWithoutFloor(intervalMs) ==
  LET m == Max2(intervalMs, 1)
      hundredths == Max2(100, (200000 + m) \div (2 * m))
  IN toString(hundredths \div 100) \o "." \o
     padStart(toString(hundredths % 100), 2, "0")

fps(intervalMs) ==
  LET m == Max2(intervalMs, VIDEO_INTERVAL_FLOOR)
      hundredths == Max2(100, (200000 + m) \div (2 * m))
  IN toString(hundredths \div 100) \o "." \o
     padStart(toString(hundredths % 100), 2, "0")

execArgs(intervalMs, quality) ==
  <<"-framerate", fps(intervalMs), "-i", "frame_%03d.png", "-c:v", "libx264",
    "-preset", VIDEO_QUALITY_SETTINGS(quality).preset,
    "-crf", VIDEO_QUALITY_SETTINGS(quality).crf,
    "-pix_fmt", "yuv420p", "-movflags", "+faststart", OutputName>>

\* error.message.includes('libx264')
includesLibx264(message) == message = "Unknown encoder 'libx264'"

rewriteMessage(message) ==
  IF includesLibx264(message)
    THEN "MP4 export requires H.264 support. Please try a different browser."
    ELSE message

\* What the engine and the GIF encoder can answer.
ExecErrors == {"Unknown encoder 'libx264'", "ffmpeg is not loaded"}
\* exec either returns an exit code or throws; codec tells whether the engine
\* build has the libx264 encoder (without it exec cannot succeed)
ExecAnswers ==
  {[code |-> 0, thrown |-> "", codec |-> TRUE],
   [code |-> 1, thrown |-> "", codec |-> TRUE],
   [code |-> 1, thrown |-> "", codec |-> FALSE]} \cup
  {[code |-> -1, thrown |-> m, codec |-> ~includesLibx264(m)] : m \in ExecErrors}
NoAnswer == [code |-> -1, thrown |-> "", codec |-> TRUE]
ReadAnswers == {"bytes", "string", "throws"}
GifEncoded == [error |-> FALSE, image |-> <<GifHeader, <<1>>>>]
GifResults ==
  {[error |-> TRUE, image |-> <<>>],
   [error |-> TRUE, image |-> <<GifHeader, <<1>>>>],
   [error |-> FALSE, image |-> <<>>],
   GifEncoded,
   [error |-> FALSE, image |-> <<GifHeader>>],
   [error |-> FALSE, image |-> <<"", <<1>>>>],
   [error |-> FALSE, image |-> <<PngHeader, <<1>>>>],
   [error |-> FALSE, image |-> <<"data:;base64", <<1>>>>],
   [error |-> FALSE, image |-> <<"data:image/gif", <<1>>>>]}
NoGifResult == [error |-> FALSE, image |-> <<"pending">>]

\* ---------------------------------------------------------------- state
VARIABLES
  images,        \* React state: the frame list
  crop,          \* React state: crop size
  wiggleSpeed,   \* React state: frame interval typed by the user
  isExporting,   \* React state
  exportFormat,  \* React state
  gifQuality,    \* React state
  videoQuality,  \* React state
  exportResult,  \* React state: [url, format, fileName], url = 0 when null
  errorMessage,  \* React state: "" when null
  view,          \* the state as of the last render: what handler closures read
  objectUrls,    \* every URL made by URL.createObjectURL, with its revocation
  loaders,       \* Image() loaders whose onload/onerror has not fired yet
  exports,       \* handleExport invocations that passed the guard
  ffmpegInstance,        \* module state of rendering.ts: 0 = null
  ffmpegLoaded,          \* ffmpegInstance.loaded
  ffmpegLoadingPromise,  \* module state of rendering.ts: 0 = null, else the load
  loadsPending,  \* FFmpeg.load() calls that have not settled
  loadCalls,     \* number of FFmpeg.load() calls so far
  vfs,           \* the engine's virtual file system: name -> content
  uiEvents,      \* number of user inputs so far, by kind
  frameIds       \* number of frame ids createBlankImage has drawn so far

uiVars == <<images, crop, wiggleSpeed, isExporting, exportFormat, gifQuality,
            videoQuality, exportResult, errorMessage>>
vars == <<images, crop, wiggleSpeed, isExporting, exportFormat, gifQuality,
          videoQuality, exportResult, errorMessage, view, objectUrls, loaders,
          exports, ffmpegInstance, ffmpegLoaded, ffmpegLoadingPromise,
          loadsPending, loadCalls, vfs, uiEvents, frameIds>>
engineVars == <<ffmpegInstance, ffmpegLoaded, ffmpegLoadingPromise,
                loadsPending, loadCalls, vfs>>

NoResult == [url |-> 0, format |-> "", fileName |-> ""]

\* The component is mounted until its effects are cleaned up. Its handlers
\* can be invoked and it renders only while mounted; a state setter called
\* after the unmount is ignored.
mounted == uiEvents.unmounts = 0
setState(current, next) == IF mounted THEN next ELSE current

Snapshot(imgs, c) ==
  [images |-> imgs, crop |-> c, wiggleSpeed |-> wiggleSpeed,
   isExporting |-> isExporting, exportFormat |-> exportFormat,
   gifQuality |-> gifQuality, videoQuality |-> videoQuality,
   exportResult |-> exportResult]

createInitialState == <<createBlankImage(1), createBlankImage(2)>>

\* What canvas.toDataURL yields for one image drawn on a crop-sized canvas:
\* the image, the canvas size, and where drawImage put the image.
renderOf(image, c) ==
  LET natural == FileSize(objectUrls[image.objectUrl].file)
  IN <<PngHeader,
       <<image.objectUrl, c.width, c.height,
         frameMatrix(c, image.adjustments), drawOrigin(natural)>>>>

Init ==
  /\ images = createInitialState
  /\ crop = DEFAULT_CROP
  /\ wiggleSpeed = DEFAULT_WIGGLE_SPEED
  /\ isExporting = FALSE
  /\ exportFormat = "gif"
  /\ gifQuality = "medium"
  /\ videoQuality = "medium"
  /\ exportResult = NoResult
  /\ errorMessage = ""
  /\ view = [images |-> createInitialState, crop |-> DEFAULT_CROP,
             wiggleSpeed |-> DEFAULT_WIGGLE_SPEED, isExporting |-> FALSE,
             exportFormat |-> "gif", gifQuality |-> "medium",
             videoQuality |-> "medium", exportResult |-> NoResult]
  /\ objectUrls = <<>>
  /\ loaders = {}
  /\ exports = <<>>
  /\ ffmpegInstance = 0
  /\ ffmpegLoaded = FALSE
  /\ ffmpegLoadingPromise = 0
  /\ loadsPending = {}
  /\ loadCalls = 0
  /\ vfs = [name \in FileNames |-> NoFile]
  /\ uiEvents = [files |-> 0, settings |-> 0, crops |-> 0, adjusts |-> 0,
                 refused |-> 0,
                 declined |-> 0, unmounts |-> 0]
  /\ frameIds = MINIMUM_FRAMES

\* ------------------------------------------------------------ UI handlers
\* updateImage with an updater of the form (image) => ({...image, ...fields})
updateImage(imgs, id, fields) ==
  [i \in 1..Len(imgs) |->
     IF imgs[i].id = id
       THEN [f \in DOMAIN imgs[i] |->
               IF f \in DOMAIN fields THEN fields[f] ELSE imgs[i][f]]
       ELSE imgs[i]]

RevokeAll(urls, revoked) ==
  [u \in 1..Len(urls) |->
     IF u \in revoked THEN [urls[u] EXCEPT !.revoked = TRUE] ELSE urls[u]]

handleFrameFileSelect(id, file) ==
  /\ mounted
  /\ uiEvents.files < MaxFileSelects
  /\ \E i \in 1..Len(view.images) : view.images[i].id = id
  /\ LET objectUrl == Len(objectUrls) + 1
         old == {images[i].objectUrl : i \in {j \in 1..Len(images) : images[j].id = id}} \ {0}
         replace == [objectUrl |-> objectUrl, naturalWidth |-> 0,
                     naturalHeight |-> 0, isLoaded |-> FALSE, error |-> ""]
     IN /\ objectUrls' = Append(RevokeAll(objectUrls, old),
                                [kind |-> "file", file |-> file, revoked |-> FALSE])
        /\ images' = updateImage(images, id, replace)
        /\ loaders' = loaders \cup {[id |-> id, objectUrl |-> objectUrl]}
  /\ uiEvents' = [uiEvents EXCEPT !.files = @ + 1]
  /\ UNCHANGED <<frameIds, crop, wiggleSpeed, isExporting, exportFormat, gifQuality,
                 videoQuality, exportResult, errorMessage, view, exports,
                 engineVars>>

\* loader.onload / loader.onerror of one file selection. The callbacks name
\* the frame by its id and do not look at the frame's current objectUrl. A
\* file that decodes fires onload; once its URL has been revoked it fires
\* onload or onerror, depending on how far the load had got.
loaderSettles(l, loads) ==
  /\ l \in loaders
  /\ IF ~FileDecodes(objectUrls[l.objectUrl].file) THEN ~loads
     ELSE IF objectUrls[l.objectUrl].revoked THEN TRUE
     ELSE loads
  /\ LET file == objectUrls[l.objectUrl].file
         onload == [naturalWidth |-> FileSize(file).width,
                    naturalHeight |-> FileSize(file).height,
                    isLoaded |-> TRUE]
         onerror == [error |-> "Unable to read image", isLoaded |-> FALSE]
     IN images' = setState(images,
                           IF loads THEN updateImage(images, l.id, onload)
                           ELSE updateImage(images, l.id, onerror))
  /\ loaders' = loaders \ {l}
  /\ UNCHANGED <<frameIds, crop, wiggleSpeed, isExporting, exportFormat, gifQuality,
                 videoQuality, exportResult, errorMessage, view, objectUrls,
                 exports, uiEvents,
                 engineVars>>

\* createBlankImage draws a fresh id; relabelImages only rewrites the labels,
\* which follow from the positions and are not kept in the model.
handleAddFrame ==
  /\ mounted
  /\ frameIds < MaxFrames
  /\ frameIds' = frameIds + 1
  /\ images' = Append(images, createBlankImage(frameIds + 1))
  /\ UNCHANGED <<crop, wiggleSpeed, isExporting, exportFormat, gifQuality,
                 videoQuality, exportResult, errorMessage, view, objectUrls,
                 loaders, exports, uiEvents, engineVars>>

\* mutant of removes: no check of the minimum length
removesAnyKnown(imgs, id) == \E i \in DOMAIN imgs : imgs[i].id = id

\* the updater of handleRemoveFrame goes on to remove the frame: the list is
\* longer than MINIMUM_FRAMES and holds the id
removes(imgs, id) ==
  /\ Len(imgs) > MINIMUM_FRAMES
  /\ \E i \in DOMAIN imgs : imgs[i].id = id

\* The remove button of a rendered frame card, disabled while the rendered
\* list has no more than MINIMUM_FRAMES frames; the updater runs on the
\* latest list and removes the frame.
handleRemoveFrame(id) ==
  /\ mounted
  /\ Len(view.images) > MINIMUM_FRAMES
  /\ \E i \in DOMAIN view.images : view.images[i].id = id
  /\ removes(images, id)
  /\ LET target == {i \in DOMAIN images : images[i].id = id}
     IN /\ images' = SelectSeq(images, LAMBDA image : image.id # id)
        /\ objectUrls' = RevokeAll(objectUrls, {images[i].objectUrl : i \in target} \ {0})
  /\ UNCHANGED <<crop, wiggleSpeed, isExporting, exportFormat, gifQuality,
                 videoQuality, exportResult, errorMessage, view, loaders,
                 exports, uiEvents, frameIds, engineVars>>

\* handleRemoveFrame for a request its updater declines, from whatever
\* render the request comes: the latest list has no more than MINIMUM_FRAMES
\* frames, or does not hold the id. The updater returns the list it was
\* given and revokes nothing.
handleRemoveFrameReturns(id) ==
  /\ mounted
  /\ uiEvents.declined < MaxDeclinedRemoves
  /\ ~removes(images, id)
  /\ uiEvents' = [uiEvents EXCEPT !.declined = @ + 1]
  /\ UNCHANGED <<frameIds, uiVars, view, objectUrls, loaders, exports,
                 engineVars>>

\* the controls of the active frame, one of the rendered frames
handleAdjustmentChange(id, key, value) ==
  /\ mounted
  /\ uiEvents.adjusts < MaxAdjustments
  /\ \E i \in DOMAIN view.images : view.images[i].id = id
  /\ images' = [i \in DOMAIN images |->
                  IF images[i].id = id
                    THEN [images[i] EXCEPT !.adjustments[key] = value]
                    ELSE images[i]]
  /\ uiEvents' = [uiEvents EXCEPT !.adjusts = @ + 1]
  /\ UNCHANGED <<crop, wiggleSpeed, isExporting, exportFormat, gifQuality,
                 videoQuality, exportResult, errorMessage, view, objectUrls,
                 loaders, exports, frameIds, engineVars>>

handleResetAdjustments(id) ==
  /\ mounted
  /\ \E i \in DOMAIN view.images : view.images[i].id = id
  /\ images' = updateImage(images, id, [adjustments |-> NoAdjustments])
  /\ UNCHANGED <<crop, wiggleSpeed, isExporting, exportFormat, gifQuality,
                 videoQuality, exportResult, errorMessage, view, objectUrls,
                 loaders, exports, uiEvents, frameIds, engineVars>>

setCropValue(c, dimension, value) ==
  LET limits == cropLimits(view.images)
  IN IF dimension = "width"
       THEN [c EXCEPT !.width = clamp(value, MIN_CROP_SIZE, limits.width)]
       ELSE [c EXCEPT !.height = clamp(value, MIN_CROP_SIZE, limits.height)]

setCropDimension(dimension, value) ==
  /\ mounted
  /\ uiEvents.crops < MaxCropEdits
  /\ crop' = setCropValue(crop, dimension, value)
  /\ uiEvents' = [uiEvents EXCEPT !.crops = @ + 1]
  /\ UNCHANGED <<frameIds, images, wiggleSpeed, isExporting, exportFormat, gifQuality,
                 videoQuality, exportResult, errorMessage, view, objectUrls,
                 loaders, exports,
                 engineVars>>

adjustCropDimension(dimension, delta) ==
  /\ mounted
  /\ uiEvents.crops < MaxCropEdits
  /\ crop' = setCropValue(crop, dimension,
                          (IF dimension = "width" THEN crop.width ELSE crop.height) + delta)
  /\ uiEvents' = [uiEvents EXCEPT !.crops = @ + 1]
  /\ UNCHANGED <<frameIds, images, wiggleSpeed, isExporting, exportFormat, gifQuality,
                 videoQuality, exportResult, errorMessage, view, objectUrls,
                 loaders, exports,
                 engineVars>>

handlePresetApply(width, height) ==
  /\ mounted
  /\ uiEvents.crops < MaxCropEdits
  /\ crop' = setCropValue(setCropValue(crop, "width", width), "height", height)
  /\ uiEvents' = [uiEvents EXCEPT !.crops = @ + 1]
  /\ UNCHANGED <<frameIds, images, wiggleSpeed, isExporting, exportFormat, gifQuality,
                 videoQuality, exportResult, errorMessage, view, objectUrls,
                 loaders, exports,
                 engineVars>>

setWiggleSpeed(value) ==
  /\ mounted
  /\ uiEvents.settings < MaxSettingChanges
  /\ wiggleSpeed' = value
  /\ uiEvents' = [uiEvents EXCEPT !.settings = @ + 1]
  /\ UNCHANGED <<frameIds, images, crop, isExporting, exportFormat, gifQuality,
                 videoQuality, exportResult, errorMessage, view, objectUrls,
                 loaders, exports,
                 engineVars>>

setExportFormat(value) ==
  /\ mounted
  /\ uiEvents.settings < MaxSettingChanges
  /\ value # exportFormat
  /\ exportFormat' = value
  /\ uiEvents' = [uiEvents EXCEPT !.settings = @ + 1]
  /\ UNCHANGED <<frameIds, images, crop, wiggleSpeed, isExporting, gifQuality,
                 videoQuality, exportResult, errorMessage, view, objectUrls,
                 loaders, exports,
                 engineVars>>

\* onChange of the quality <select>: the closure's exportFormat picks the setter
setQuality(value) ==
  /\ mounted
  /\ uiEvents.settings < MaxSettingChanges
  /\ IF view.exportFormat = "gif"
       THEN gifQuality' = value /\ UNCHANGED videoQuality
       ELSE videoQuality' = value /\ UNCHANGED gifQuality
  /\ uiEvents' = [uiEvents EXCEPT !.settings = @ + 1]
  /\ UNCHANGED <<frameIds, images, crop, wiggleSpeed, isExporting, exportFormat,
                 exportResult, errorMessage, view, objectUrls, loaders, exports,
                 engineVars>>

\* A React render commits the pending state to the closures; the crop effect
\* (deps: cropLimits) then re-clamps the crop, which is rendered in turn.
Render ==
  LET before == cropLimits(view.images)
      after == cropLimits(images)
      clamped == [width |-> clamp(crop.width, MIN_CROP_SIZE, after.width),
                  height |-> clamp(crop.height, MIN_CROP_SIZE, after.height)]
      c == IF before = after THEN crop ELSE clamped
  IN /\ mounted
     /\ view # Snapshot(images, c)
     /\ crop' = c
     /\ view' = Snapshot(images, c)
     /\ UNCHANGED <<frameIds, images, wiggleSpeed, isExporting, exportFormat, gifQuality,
                    videoQuality, exportResult, errorMessage, objectUrls,
                    loaders, exports, uiEvents,
                 engineVars>>

\* ------------------------------------------------------- export pipeline
\* mutant of canExport: the guard does not look at isExporting
canExportWhileExporting(v) ==
  /\ Len(loadedImages(v.images)) >= MINIMUM_FRAMES
  /\ Len(loadedImages(v.images)) = Len(v.images)
  /\ v.crop.width > 0

canExport(v) ==
  /\ Len(loadedImages(v.images)) >= MINIMUM_FRAMES
  /\ Len(loadedImages(v.images)) = Len(v.images)
  /\ ~v.isExporting
  /\ v.crop.width > 0

\* mutant of exportInterval: the interval is used as typed
exportIntervalUnclamped(speed) == speed

\* const interval = Math.max(wiggleSpeed, 60)
exportInterval(speed) == Max2(speed, EXPORT_INTERVAL_FLOOR)

UrlUsable(u) == u # 0 /\ ~objectUrls[u].revoked /\ FileDecodes(objectUrls[u].file)

\* handleExport up to its first await: the guard, the two setters and the
\* call of generateFrames, which starts one renderFrame per image.
handleExport ==
  /\ mounted
  /\ Len(exports) < MaxExports
  /\ canExport(view)
  /\ Len(loadedImages(view.images)) # 0
  /\ isExporting' = TRUE
  /\ errorMessage' = ""
  /\ exports' = Append(exports,
       [pc |-> "render",
        images |-> view.images, crop |-> view.crop,
        exportFormat |-> view.exportFormat, gifQuality |-> view.gifQuality,
        videoQuality |-> view.videoQuality, wiggleSpeed |-> view.wiggleSpeed,
        prevUrl |-> view.exportResult.url,
        tasks |-> [i \in 1..Len(view.images) |-> "pending"],
        decodes |-> [i \in 1..Len(view.images) |-> UrlUsable(view.images[i].objectUrl)],
        results |-> [i \in 1..Len(view.images) |-> <<>>],
        surfaces |-> [i \in 1..Len(view.images) |-> "none"],
        settled |-> <<>>,
        frames |-> <<>>, intervalMs |-> 0, quality |-> "", args |-> <<>>,
        awaits |-> 0, index |-> 0, encoded |-> <<>>,
        encoder |-> "", written |-> 0,
        blob |-> [type |-> "", bytes |-> <<>>],
        result |-> NoGifResult, settles |-> <<>>,
        exec |-> NoAnswer, fileData |-> "",
        deletes |-> 0, swallowed |-> 0,
        error |-> "", outcome |-> ""])
  /\ UNCHANGED <<frameIds, images, crop, wiggleSpeed, exportFormat, gifQuality,
                 videoQuality, exportResult, view, objectUrls, loaders,
                 engineVars, uiEvents>>

\* handleExport when its guard fails: if (!canExport) return and
\* if (!loadedImages.length) return come before the first setter and the
\* first call, so the invocation ends having set and called nothing.
handleExportReturns ==
  /\ mounted
  /\ uiEvents.refused < MaxRefusedExports
  /\ ~(canExport(view) /\ Len(loadedImages(view.images)) # 0)
  /\ uiEvents' = [uiEvents EXCEPT !.refused = @ + 1]
  /\ UNCHANGED <<frameIds, uiVars, view, objectUrls, loaders, exports,
                 engineVars>>

\* A handleExport invocation that has run to its end keeps no locals: only
\* its render tasks, which may still be running, and the record of how it
\* went (outcome, error, settled, encoder, written, what the encoder
\* answered and the type of the blob it was given).
ended(e, outcome, message) ==
  [e EXCEPT !.pc = "done", !.outcome = outcome, !.error = message,
            !.results = [i \in DOMAIN e.tasks |-> <<>>],
            !.settled = IF e.encoder = "" THEN @ ELSE <<>>,
            !.frames = <<>>, !.intervalMs = 0, !.quality = "", !.args = <<>>,
            !.awaits = 0, !.index = 0, !.encoded = <<>>,
            !.blob = [type |-> e.blob.type, bytes |-> <<>>]]

\* mutant of promiseAll (Promise.allSettled): waits for every task and
\* resolves even when some were rejected
promiseAllSettled(tasks) ==
  IF \E j \in DOMAIN tasks : tasks[j] = "pending" THEN "pending" ELSE "fulfilled"

\* Promise.all: rejected by the first rejection, fulfilled once every task is
promiseAll(tasks) ==
  IF \E j \in DOMAIN tasks : tasks[j] \notin {"pending", "fulfilled"} THEN "rejected"
  ELSE IF \A j \in DOMAIN tasks : tasks[j] = "fulfilled" THEN "fulfilled"
  ELSE "pending"

\* mutant of joinResult: results are collected in completion order
joinInCompletionOrder(results, i, frame) ==
  LET free == {j \in DOMAIN results : results[j] = <<>>}
      slot == CHOOSE j \in free : \A k \in free : j <= k
  IN [results EXCEPT ![slot] = frame]

\* Promise.all: the result array is filled by input position
joinResult(results, i, frame) == [results EXCEPT ![i] = frame]

\* mutant of getFfmpeg: no check of ffmpegInstance.loaded before load()
getFfmpegReloads(instance, loaded, promise, calls) ==
  LET inst == IF instance = 0 THEN 1 ELSE instance
      starts == promise = 0
      current == IF starts THEN calls + 1 ELSE promise
  IN [instance |-> inst, promise |-> current, starts |-> starts, awaits |-> current]

\* mutant of getFfmpeg: no check of ffmpegLoadingPromise before load()
getFfmpegUnguarded(instance, loaded, promise, calls) ==
  LET inst == IF instance = 0 THEN 1 ELSE instance
      current == IF loaded THEN promise ELSE calls + 1
  IN [instance |-> inst, promise |-> current, starts |-> ~loaded,
      awaits |-> IF loaded THEN 0 ELSE current]

\* getFfmpeg up to its await: the engine state it leaves and the load awaited
getFfmpeg(instance, loaded, promise, calls) ==
  LET inst == IF instance = 0 THEN 1 ELSE instance
      starts == ~loaded /\ promise = 0
      current == IF starts THEN calls + 1 ELSE promise
  IN [instance |-> inst, promise |-> current, starts |-> starts,
      awaits |-> IF loaded THEN 0 ELSE current]

\* mutant of exportFails: the catch block also drops the previous result
exportFailsClearsResult(message) ==
  /\ errorMessage' = message
  /\ isExporting' = FALSE
  /\ exportResult' = NoResult
  /\ UNCHANGED objectUrls

\* mutant of exportFails: the catch block without the finally block
exportFailsStaysBusy(message) ==
  /\ errorMessage' = message
  /\ UNCHANGED <<isExporting, exportResult, objectUrls>>

\* the catch and finally blocks of handleExport
exportFails(message) ==
  /\ errorMessage' = setState(errorMessage, message)
  /\ isExporting' = setState(isExporting, FALSE)
  /\ UNCHANGED <<exportResult, objectUrls>>

\* mutant of exportSucceeds: the result is labelled with the format selected
\* when the export ends
exportSucceedsAsSelected(p, blob) ==
  /\ objectUrls' = Append(RevokeAll(objectUrls, {exports[p].prevUrl} \ {0}),
                          [kind |-> "blob", file |-> "", revoked |-> FALSE])
  /\ exportResult' = [url |-> Len(objectUrls) + 1,
                      format |-> exportFormat,
                      fileName |-> "wigglegram." \o exportFormat]
  /\ isExporting' = FALSE
  /\ UNCHANGED errorMessage

\* the tail of handleExport's try block, then its finally block
exportSucceeds(p, blob) ==
  /\ objectUrls' = Append(RevokeAll(objectUrls, {exports[p].prevUrl} \ {0}),
                          [kind |-> "blob", file |-> "", revoked |-> FALSE])
  /\ exportResult' = setState(exportResult,
                        [url |-> Len(objectUrls) + 1,
                         format |-> exports[p].exportFormat,
                         fileName |-> "wigglegram." \o exports[p].exportFormat])
  /\ isExporting' = setState(isExporting, FALSE)
  /\ UNCHANGED errorMessage

\* mutant of renderFrame: the objectUrl check comes after the canvas
renderFrameChecksLate(image, element, context) ==
  IF image.objectUrl = 0
    THEN [error |-> "All frames must be loaded before rendering.",
          surface |-> "canvas"]
  ELSE IF ~element THEN [error |-> "Failed to load image.", surface |-> "none"]
  ELSE IF ~context THEN [error |-> "Unable to render frame.", surface |-> "canvas"]
  ELSE [error |-> "", surface |-> "context"]

\* renderFrame up to its return: the error it throws ("" when it returns a
\* still) and how far it got with its surface: no canvas created, a canvas
\* without a 2D context, or a canvas with its context.
renderFrame(image, element, context) ==
  IF image.objectUrl = 0
    THEN [error |-> "All frames must be loaded before rendering.",
          surface |-> "none"]
  ELSE IF ~element THEN [error |-> "Failed to load image.", surface |-> "none"]
  ELSE IF ~context THEN [error |-> "Unable to render frame.", surface |-> "canvas"]
  ELSE [error |-> "", surface |-> "context"]

\* One renderFrame settles. When it is the first to reject, or the last to
\* fulfil, Promise.all settles and handleExport resumes in the same turn:
\* into its catch block, into makeGif, or into makeMp4 up to its first await.
\* element: ensureImageElement resolves (onload); context: getContext('2d')
\* yields a context. A URL that was unusable when image.src was assigned
\* fires onerror; one revoked since then fires onload or onerror.
renderSettles(p, i, element, context) ==
  /\ p \in DOMAIN exports
  /\ i \in DOMAIN exports[p].tasks
  /\ exports[p].tasks[i] = "pending"
  /\ LET url == exports[p].images[i].objectUrl
     IN IF url = 0 \/ ~exports[p].decodes[i] THEN ~element /\ context
        ELSE IF objectUrls[url].revoked THEN element \/ context
        ELSE element
  /\ LET e == exports[p]
         rendered == renderFrame(e.images[i], element, context)
         message == rendered.error
         ok == message = ""
         e1 == [e EXCEPT !.tasks[i] = IF ok THEN "fulfilled" ELSE message,
                         !.results = IF ok THEN joinResult(@, i, renderOf(e.images[i], e.crop))
                                     ELSE @,
                         !.surfaces[i] = rendered.surface,
                         !.settled = Append(@, i)]
         joined == IF e.pc = "render" THEN promiseAll(e1.tasks) ELSE "settled"
         interval == exportInterval(e.wiggleSpeed)
         engine == getFfmpeg(ffmpegInstance, ffmpegLoaded, ffmpegLoadingPromise, loadCalls)
     IN IF joined = "rejected" THEN
          /\ exports' = [exports EXCEPT ![p] =
                           ended(e1, "failed", e1.tasks[i])]
          /\ errorMessage' = setState(errorMessage, e1.tasks[i])
          /\ isExporting' = setState(isExporting, FALSE)
          /\ UNCHANGED <<ffmpegInstance, ffmpegLoadingPromise, loadsPending, loadCalls>>
        ELSE IF joined = "fulfilled" /\ e.exportFormat = "gif" THEN
          /\ exports' = [exports EXCEPT ![p] =
               [e1 EXCEPT !.pc = "gif", !.frames = e1.results, !.encoder = "gif",
                          !.intervalMs = interval, !.quality = e.gifQuality,
                          !.args = <<Len(e1.results), e.crop.width, e.crop.height,
                                     interval,
                                     GIF_QUALITY_SETTINGS(e.gifQuality).sampleInterval,
                                     GIF_QUALITY_SETTINGS(e.gifQuality).gifQuality>>]]
          /\ UNCHANGED <<errorMessage, isExporting, ffmpegInstance,
                         ffmpegLoadingPromise, loadsPending, loadCalls>>
        ELSE IF joined = "fulfilled" /\ Len(e1.results) = 0 THEN
          /\ exports' = [exports EXCEPT ![p] =
               ended([e1 EXCEPT !.encoder = "mp4"], "failed",
                     "No frames available for video rendering.")]
          /\ errorMessage' = setState(errorMessage,
                                      "No frames available for video rendering.")
          /\ isExporting' = setState(isExporting, FALSE)
          /\ UNCHANGED <<ffmpegInstance, ffmpegLoadingPromise, loadsPending, loadCalls>>
        ELSE IF joined = "fulfilled" THEN
          /\ exports' = [exports EXCEPT ![p] =
               [e1 EXCEPT !.pc = IF engine.awaits # 0 THEN "load" ELSE "write",
                          !.frames = e1.results, !.intervalMs = interval,
                          !.encoder = "mp4",
                          !.quality = e.videoQuality, !.awaits = engine.awaits]]
          /\ ffmpegInstance' = engine.instance
          /\ ffmpegLoadingPromise' = engine.promise
          /\ loadCalls' = IF engine.starts THEN loadCalls + 1 ELSE loadCalls
          /\ loadsPending' = IF engine.starts THEN loadsPending \cup {engine.promise}
                             ELSE loadsPending
          /\ UNCHANGED <<errorMessage, isExporting>>
        ELSE
          /\ exports' = [exports EXCEPT ![p] =
                           IF joined = "pending" THEN e1
                           ELSE [e EXCEPT !.tasks = e1.tasks,
                                          !.surfaces = e1.surfaces]]
          /\ UNCHANGED <<errorMessage, isExporting, ffmpegInstance,
                         ffmpegLoadingPromise, loadsPending, loadCalls>>
  /\ UNCHANGED <<frameIds, images, crop, wiggleSpeed, exportFormat, gifQuality,
                 videoQuality, exportResult, view, objectUrls, loaders,
                 ffmpegLoaded, vfs, uiEvents>>

\* mutant of gifCallback: whatever the encoder returns without its error
\* flag is resolved, well-formed or not
gifCallbackUnchecked(result) ==
  LET converted == dataUrlToBlob(result.image)
  IN IF result.error
       THEN <<[call |-> "reject", message |-> "Unable to generate GIF.",
               type |-> ""]>>
       ELSE <<[call |-> "resolve", message |-> "", type |-> converted.type]>>

\* the callback makeGif hands to gifshot.createGIF: the calls of resolve and
\* reject it makes, in order
gifCallback(result) ==
  LET converted == dataUrlToBlob(result.image)
  IN IF result.error \/ result.image = <<>>
       THEN <<[call |-> "reject", message |-> "Unable to generate GIF.",
               type |-> ""]>>
     ELSE IF converted.ok
       THEN <<[call |-> "resolve", message |-> "", type |-> converted.type]>>
     ELSE <<[call |-> "reject", message |-> converted.error, type |-> ""]>>

\* the callback of gifshot.createGIF fires: the promise of makeGif takes its
\* first settlement, then the rest of handleExport runs
gifSettles(p, result) ==
  /\ p \in DOMAIN exports
  /\ exports[p].pc = "gif"
  /\ LET calls == gifCallback(result)
         e == [exports[p] EXCEPT !.result = result,
                                 !.settles = [i \in 1..Len(calls) |-> calls[i].call],
                                 !.blob = [type |-> calls[1].type, bytes |-> <<>>]]
     IN IF calls[1].call = "resolve" THEN
          /\ exports' = [exports EXCEPT ![p] = ended(e, "ok", "")]
          /\ exportSucceeds(p, e.blob)
        ELSE
          /\ exports' = [exports EXCEPT ![p] = ended(e, "failed", calls[1].message)]
          /\ exportFails(calls[1].message)
  /\ UNCHANGED <<frameIds, images, crop, wiggleSpeed, exportFormat, gifQuality,
                 videoQuality, view, loaders, engineVars, uiEvents>>

\* mutant of loadFinally: the loading promise is kept once it has settled
loadFinallyKeeps(promise) == promise

\* .finally(() => { ffmpegLoadingPromise = null })
loadFinally(promise) == 0

\* FFmpeg.load() settles; the finally callback clears the loading promise and
\* every getFfmpeg awaiting this load resumes: into makeMp4's try block, or
\* out of makeMp4 (the await is outside the try) into handleExport's catch.
loadSettles(l, ok) ==
  /\ l \in loadsPending
  /\ loadsPending' = loadsPending \ {l}
  /\ ffmpegLoaded' = (ffmpegLoaded \/ ok)
  /\ ffmpegLoadingPromise' = loadFinally(ffmpegLoadingPromise)
  /\ LET waiting == {p \in DOMAIN exports :
                       exports[p].pc = "load" /\ exports[p].awaits = l}
     IN /\ exports' = [p \in DOMAIN exports |->
             IF p \notin waiting THEN exports[p]
             ELSE IF ok THEN [exports[p] EXCEPT !.pc = "write", !.awaits = 0]
             ELSE ended(exports[p], "failed", "failed to import ffmpeg-core.js")]
        /\ IF ~ok /\ waiting # {}
             THEN exportFails("failed to import ffmpeg-core.js")
             ELSE UNCHANGED <<errorMessage, isExporting, exportResult, objectUrls>>
  /\ UNCHANGED <<frameIds, images, crop, wiggleSpeed, exportFormat, gifQuality,
                 videoQuality, view, loaders, ffmpegInstance, loadCalls, vfs,
                 uiEvents>>

\* mutant of mp4Caught: a failed encode leaves its frame files behind
mp4CaughtKeepsFrames(e, message) ==
  [e EXCEPT !.pc = "cleanup", !.index = Len(e.frames),
            !.error = rewriteMessage(message)]

\* the catch block of makeMp4, entering its finally block
mp4Caught(e, message) ==
  [e EXCEPT !.pc = "cleanup", !.index = 0, !.error = rewriteMessage(message)]

\* one iteration of the write loop: dataUrlToUint8Array, then writeFile
writeSettles(p, ok) ==
  /\ p \in DOMAIN exports
  /\ exports[p].pc = "write"
  /\ LET e == exports[p]
         k == e.index
         converted == dataUrlToBlob(e.frames[k + 1])
     IN IF ~converted.ok THEN
          /\ ok
          /\ exports' = [exports EXCEPT ![p] = mp4Caught(e, converted.error)]
          /\ UNCHANGED vfs
        ELSE IF ~ok THEN
          /\ exports' = [exports EXCEPT ![p] = mp4Caught(e, "FS error")]
          /\ UNCHANGED vfs
        ELSE
          /\ vfs' = [vfs EXCEPT ![FrameName(k)] = [owner |-> p, data |-> converted.bytes]]
          /\ exports' = [exports EXCEPT ![p] =
               [e EXCEPT !.index = k + 1, !.written = @ + 1,
                         !.pc = IF k + 1 < Len(e.frames) THEN "write" ELSE "exec",
                         !.args = IF k + 1 < Len(e.frames) THEN @
                                  ELSE execArgs(e.intervalMs, e.quality)]]
  /\ UNCHANGED <<frameIds, uiVars, view, objectUrls, loaders, ffmpegInstance,
                 ffmpegLoaded, ffmpegLoadingPromise, loadsPending, loadCalls,
                 uiEvents>>

\* the image sequence frame_%03d.png as the encoder finds it
RECURSIVE inputSequence(_, _)
inputSequence(fs, k) ==
  IF k >= MaxFrames \/ fs[FrameName(k)] = NoFile THEN <<>>
  ELSE <<fs[FrameName(k)]>> \o inputSequence(fs, k + 1)

\* ffmpeg.exec settles: exit code 0 (output.mp4 written), another exit code,
\* or an exception
execSettles(p, answer) ==
  /\ p \in DOMAIN exports
  /\ exports[p].pc = "exec"
  /\ LET e == [exports[p] EXCEPT !.exec = answer]
         input == inputSequence(vfs, 0)
     IN IF answer.thrown # "" THEN
          /\ exports' = [exports EXCEPT ![p] = mp4Caught(e, answer.thrown)]
          /\ UNCHANGED vfs
        ELSE IF answer.code = 0 THEN
          /\ input # <<>>
          /\ vfs' = [vfs EXCEPT ![OutputName] =
                       [owner |-> p, data |-> [j \in 1..Len(input) |-> input[j].data]]]
          /\ exports' = [exports EXCEPT ![p] =
                           [e EXCEPT !.pc = "read", !.encoded = input]]
        ELSE
          /\ exports' = [exports EXCEPT ![p] =
                           mp4Caught([e EXCEPT !.encoded = input], "Video rendering failed.")]
          /\ UNCHANGED vfs
  /\ UNCHANGED <<frameIds, uiVars, view, objectUrls, loaders, ffmpegInstance,
                 ffmpegLoaded, ffmpegLoadingPromise, loadsPending, loadCalls,
                 uiEvents>>

\* mutant of instanceofUint8Array: the value read back is not checked
instanceofAnything(fileData) == TRUE

\* fileData instanceof Uint8Array
instanceofUint8Array(fileData) == fileData = "bytes"

\* ffmpeg.readFile('output.mp4') settles: bytes, something else, or an exception
readSettles(p, outcome) ==
  /\ p \in DOMAIN exports
  /\ exports[p].pc = "read"
  /\ LET e == [exports[p] EXCEPT !.fileData = outcome]
         file == vfs[OutputName]
     IN IF file = NoFile THEN
          /\ outcome = "throws"
          /\ exports' = [exports EXCEPT ![p] = mp4Caught(e, "FS error")]
        ELSE IF outcome = "throws" THEN
          exports' = [exports EXCEPT ![p] = mp4Caught(e, "FS error")]
        ELSE IF ~instanceofUint8Array(outcome) THEN
          exports' = [exports EXCEPT ![p] =
                        mp4Caught(e, "Unexpected data returned from encoder.")]
        ELSE
          exports' = [exports EXCEPT ![p] =
                        [e EXCEPT !.pc = "cleanup", !.index = 0,
                                  !.blob = [type |-> "video/mp4", bytes |-> file.data]]]
  /\ UNCHANGED <<frameIds, uiVars, view, objectUrls, loaders, engineVars, uiEvents>>

\* mutant of cleanupCaught: the failure of deleteFile replaces the outcome
cleanupRethrows(e) ==
  [e EXCEPT !.error = "No such file", !.blob = [type |-> "", bytes |-> <<>>]]

\* the empty catch blocks of makeMp4's finally block
cleanupCaught(e) == [e EXCEPT !.swallowed = @ + 1]

\* One deleteFile of makeMp4's finally block settles: it removes the file, or
\* throws when there is no such file, which is swallowed. After the last one
\* makeMp4 settles and handleExport runs to its end.
deleteSettles(p) ==
  /\ p \in DOMAIN exports
  /\ exports[p].pc = "cleanup"
  /\ LET k == exports[p].index
         last == k >= Len(exports[p].frames)
         name == IF last THEN OutputName ELSE FrameName(k)
         tried == [exports[p] EXCEPT !.deletes = @ + 1]
         e == IF vfs[name] = NoFile THEN cleanupCaught(tried) ELSE tried
     IN /\ vfs' = [vfs EXCEPT ![name] = NoFile]
        /\ IF ~last THEN
             /\ exports' = [exports EXCEPT ![p] = [e EXCEPT !.index = k + 1]]
             /\ UNCHANGED <<errorMessage, isExporting, exportResult, objectUrls>>
           ELSE
             /\ exports' = [exports EXCEPT ![p] =
                  ended(e, IF e.error = "" THEN "ok" ELSE "failed", e.error)]
             /\ IF e.error = "" THEN exportSucceeds(p, e.blob) ELSE exportFails(e.error)
  /\ UNCHANGED <<frameIds, images, crop, wiggleSpeed, exportFormat, gifQuality,
                 videoQuality, view, loaders, ffmpegInstance, ffmpegLoaded,
                 ffmpegLoadingPromise, loadsPending, loadCalls, uiEvents>>

\* the Clear button, rendered while the rendered exportResult is not null
handleClearExport ==
  /\ mounted
  /\ view.exportResult.url # 0
  /\ objectUrls' = RevokeAll(objectUrls, {view.exportResult.url})
  /\ exportResult' = NoResult
  /\ UNCHANGED <<frameIds, images, crop, wiggleSpeed, isExporting, exportFormat,
                 gifQuality, videoQuality, errorMessage, view, loaders, exports,
                 engineVars, uiEvents>>

\* The cleanup of the effect without dependencies, run when the component
\* unmounts: it revokes the URLs of the frames in imagesRef and of the result
\* in exportResultRef, both as of the last render. Callbacks and awaits that
\* are outstanding go on afterwards.
unmount ==
  /\ mounted
  /\ objectUrls' = RevokeAll(objectUrls,
       ({view.images[i].objectUrl : i \in DOMAIN view.images}
          \cup {view.exportResult.url}) \ {0})
  /\ uiEvents' = [uiEvents EXCEPT !.unmounts = 1]
  /\ UNCHANGED <<frameIds, uiVars, view, loaders, exports, engineVars>>

\* ------------------------------------------------------- specifications
Exports == 1..MaxExports
Frames == 1..MaxFrames

SelectsFile == \E id \in 1..MaxFrames, file \in Files : handleFrameFileSelect(id, file)
\* the user picks a file for a frame that has none
FillsFrame(files) ==
  \E i \in DOMAIN images, file \in files :
    images[i].objectUrl = 0 /\ handleFrameFileSelect(images[i].id, file)
Decodes == \E l \in loaders, loads \in BOOLEAN : loaderSettles(l, loads)
Adjusts ==
  \/ \E id \in 1..MaxFrames, input \in AdjustInputs :
       handleAdjustmentChange(id, input[1], input[2])
  \/ \E id \in 1..MaxFrames : handleResetAdjustments(id)
ChangesFrames ==
  \/ handleAddFrame
  \/ \E id \in 1..MaxFrames : handleRemoveFrame(id)
DeclinesRemove == \E id \in 1..MaxFrames : handleRemoveFrameReturns(id)
EditsCrop ==
  \/ \E d \in {"width", "height"}, v \in CropInputs : setCropDimension(d, v)
  \/ \E d \in {"width", "height"}, v \in CropDeltas : adjustCropDimension(d, v)
  \/ \E preset \in PRESET_SIZES : handlePresetApply(preset.width, preset.height)
ChangesSettings ==
  \/ \E v \in SpeedInputs : setWiggleSpeed(v)
  \/ \E v \in ExportFormat : setExportFormat(v)
  \/ \E v \in ExportQuality : setQuality(v)
RendersFrames ==
  \E p \in Exports, i \in Frames, element \in BOOLEAN, context \in BOOLEAN :
    renderSettles(p, i, element, context)
\* the rendering surface is always available
RendersFramesWell ==
  \E p \in Exports, i \in Frames, element \in BOOLEAN : renderSettles(p, i, element, TRUE)
EncodesGif == \E p \in Exports, result \in GifResults : gifSettles(p, result)
\* the GIF encoder answers with a GIF or reports an error
EncodesGifOrFails ==
  \E p \in Exports, result \in {GifEncoded, [error |-> TRUE, image |-> <<>>]} :
    gifSettles(p, result)
\* the GIF encoder never fails
EncodesGifWell == \E p \in Exports : gifSettles(p, GifEncoded)
EncodesMp4 ==
  \/ \E l \in loadsPending, ok \in BOOLEAN : loadSettles(l, ok)
  \/ \E p \in Exports, ok \in BOOLEAN : writeSettles(p, ok)
  \/ \E p \in Exports, answer \in ExecAnswers : execSettles(p, answer)
  \/ \E p \in Exports, outcome \in ReadAnswers : readSettles(p, outcome)
  \/ \E p \in Exports : deleteSettles(p)
\* every engine call answers well or fails in one way
EncodesMp4OrFails ==
  \/ \E l \in loadsPending, ok \in BOOLEAN : loadSettles(l, ok)
  \/ \E p \in Exports, ok \in BOOLEAN : writeSettles(p, ok)
  \/ \E p \in Exports, answer \in {a \in ExecAnswers : a.codec /\ a.thrown = ""} :
       execSettles(p, answer)
  \/ \E p \in Exports, outcome \in {"bytes", "throws"} : readSettles(p, outcome)
  \/ \E p \in Exports : deleteSettles(p)
\* the engine and the renderer never fail
EncodesMp4Well ==
  \/ \E l \in loadsPending : loadSettles(l, TRUE)
  \/ \E p \in Exports : writeSettles(p, TRUE)
  \/ \E p \in Exports : execSettles(p, [code |-> 0, thrown |-> "", codec |-> TRUE])
  \/ \E p \in Exports : readSettles(p, "bytes")
  \/ \E p \in Exports : deleteSettles(p)

\* Every operation, every input.
Next ==
  \/ SelectsFile
  \/ Decodes
  \/ ChangesFrames
  \/ DeclinesRemove
  \/ Adjusts
  \/ EditsCrop
  \/ ChangesSettings
  \/ Render
  \/ handleExport
  \/ handleExportReturns
  \/ handleClearExport
  \/ unmount
  \/ RendersFrames
  \/ EncodesGif
  \/ EncodesMp4

Spec == Init /\ [][Next]_vars

\* The export pipeline: the user picks files and the format and exports,
\* while the files picked are still being decoded.
NextExport ==
  \/ FillsFrame({"mid", "broken"})
  \/ \E v \in ExportFormat : setExportFormat(v)
  \/ Render
  \/ handleExport
  \/ RendersFrames
  \/ EncodesGif
  \/ EncodesMp4

SpecExport == Init /\ [][NextExport]_vars

\* Exports and their results: the user picks decodable files and the format,
\* exports and clears the result.
NextResult ==
  \/ FillsFrame({"mid"})
  \/ \E v \in ExportFormat : setExportFormat(v)
  \/ Render
  \/ handleExport
  \/ handleClearExport
  \/ RendersFrames
  \/ EncodesGif
  \/ EncodesMp4

SpecResult == Init /\ [][NextResult]_vars

\* Exports that end: the user picks decodable files and the format and
\* exports; every render, encoder callback and engine call that is
\* outstanding settles in the end, well or by a failure.
NextReady ==
  \/ FillsFrame({"mid"})
  \/ \E v \in ExportFormat : setExportFormat(v)
  \/ Render
  \/ handleExport
  \/ RendersFrames
  \/ EncodesGifOrFails
  \/ EncodesMp4OrFails

SpecReady ==
  /\ Init /\ [][NextReady]_vars
  /\ WF_vars(RendersFrames)
  /\ WF_vars(EncodesGifOrFails)
  /\ WF_vars(EncodesMp4OrFails)

\* The frames and the crop: the user picks files, edits the crop and exports
\* a GIF; the rendering surface is always available and the GIF encoder
\* answers well.
NextCrop ==
  \/ FillsFrame(Files)
  \/ Decodes
  \/ EditsCrop
  \/ Render
  \/ handleExport
  \/ RendersFramesWell
  \/ EncodesGifWell

SpecCrop == Init /\ [][NextCrop]_vars

\* The export settings: the user picks two files and changes interval, format
\* and quality; rendering and the video engine do not fail.
NextSettings ==
  \/ FillsFrame({"mid"})
  \/ ChangesSettings
  \/ Render
  \/ handleExport
  \/ RendersFramesWell
  \/ EncodesGifWell
  \/ EncodesMp4Well

SpecSettings == Init /\ [][NextSettings]_vars

\* The GIF encoder: two decodable files, GIF exports, and every answer the
\* encoder's callback can give.
NextGif ==
  \/ FillsFrame({"mid"})
  \/ \E v \in ExportQuality : setQuality(v)
  \/ Render
  \/ handleExport
  \/ RendersFramesWell
  \/ EncodesGif

SpecGif == Init /\ [][NextGif]_vars

\* The frame list: the user picks and replaces decodable files, adds and
\* removes frames and exports a GIF, also while an export is rendering.
NextFrames ==
  \/ \E id \in 1..MaxFrames : handleFrameFileSelect(id, "mid")
  \/ ChangesFrames
  \/ Render
  \/ handleExport
  \/ RendersFramesWell
  \/ EncodesGifWell

SpecFrames == Init /\ [][NextFrames]_vars

\* Frame rendering: the user picks decodable files of two sizes, adjusts
\* frames and exports a GIF; the crop is what the crop effect makes of it.
NextRender ==
  \/ FillsFrame({"tiny", "mid"})
  \/ Decodes
  \/ Adjusts
  \/ Render
  \/ handleExport
  \/ RendersFramesWell
  \/ EncodesGifWell

SpecRender == Init /\ [][NextRender]_vars

\* makeMp4 for any caller: two decoded frames have been rendered and makeMp4
\* has been called with them, an interval and a quality of the caller's
\* choosing; it awaits the first load of the engine.
InitMp4 ==
  \E intervalMs \in IntervalInputs, quality \in ExportQuality :
    LET size == FileSize("mid")
        decoded == [i \in 1..MINIMUM_FRAMES |->
                      [createBlankImage(i) EXCEPT
                         !.objectUrl = i, !.naturalWidth = size.width,
                         !.naturalHeight = size.height, !.isLoaded = TRUE]]
        engine == getFfmpeg(0, FALSE, 0, 0)
    IN /\ images = decoded
       /\ crop = size
       /\ wiggleSpeed = intervalMs
       /\ isExporting = TRUE
       /\ exportFormat = "mp4"
       /\ gifQuality = "medium"
       /\ videoQuality = quality
       /\ exportResult = NoResult
       /\ errorMessage = ""
       /\ view = [images |-> decoded, crop |-> size, wiggleSpeed |-> intervalMs,
                  isExporting |-> TRUE, exportFormat |-> "mp4",
                  gifQuality |-> "medium", videoQuality |-> quality,
                  exportResult |-> NoResult]
       /\ objectUrls = [i \in 1..MINIMUM_FRAMES |->
                          [kind |-> "file", file |-> "mid", revoked |-> FALSE]]
       /\ loaders = {}
       /\ exports = <<
            [pc |-> "load",
             images |-> decoded, crop |-> size,
             exportFormat |-> "mp4", gifQuality |-> "medium",
             videoQuality |-> quality, wiggleSpeed |-> intervalMs,
             prevUrl |-> 0,
             tasks |-> [i \in 1..MINIMUM_FRAMES |-> "fulfilled"],
             decodes |-> [i \in 1..MINIMUM_FRAMES |-> TRUE],
             results |-> [i \in 1..MINIMUM_FRAMES |-> renderOf(decoded[i], size)],
             surfaces |-> [i \in 1..MINIMUM_FRAMES |-> "context"],
             settled |-> [i \in 1..MINIMUM_FRAMES |-> i],
             frames |-> [i \in 1..MINIMUM_FRAMES |-> renderOf(decoded[i], size)],
             intervalMs |-> intervalMs, quality |-> quality, args |-> <<>>,
             awaits |-> engine.awaits, index |-> 0, encoded |-> <<>>,
             encoder |-> "mp4", written |-> 0,
             blob |-> [type |-> "", bytes |-> <<>>],
             result |-> NoGifResult, settles |-> <<>>,
             exec |-> NoAnswer, fileData |-> "",
             deletes |-> 0, swallowed |-> 0,
             error |-> "", outcome |-> ""]>>
       /\ ffmpegInstance = engine.instance
       /\ ffmpegLoaded = FALSE
       /\ ffmpegLoadingPromise = engine.promise
       /\ loadsPending = {engine.promise}
       /\ loadCalls = 1
       /\ vfs = [name \in FileNames |-> NoFile]
       /\ uiEvents = [files |-> MINIMUM_FRAMES, settings |-> 0, crops |-> 0,
                      adjusts |-> 0, refused |-> 0,
                 declined |-> 0, unmounts |-> 0]
       /\ frameIds = MINIMUM_FRAMES

SpecMp4 == InitMp4 /\ [][EncodesMp4Well]_vars

\* generateFrames for any caller: it has been called with two or three
\* frames, each without a file, with a decodable file or with a file that
\* does not decode, and its renders are outstanding. The caller then encodes
\* a GIF.
InitGenerate ==
  \E n \in MINIMUM_FRAMES..MaxFrames :
    \E picked \in [1..n -> Files \cup {"none"}] :
      LET size == FileSize("mid")
          with == {i \in 1..n : picked[i] # "none"}
          url(i) == IF i \in with THEN Cardinality({j \in with : j <= i}) ELSE 0
          file(u) == picked[CHOOSE i \in with : url(i) = u]
          given == [i \in 1..n |->
                      [createBlankImage(i) EXCEPT !.objectUrl = url(i)]]
      IN /\ images = given
         /\ crop = size
         /\ wiggleSpeed = DEFAULT_WIGGLE_SPEED
         /\ isExporting = TRUE
         /\ exportFormat = "gif"
         /\ gifQuality = "medium"
         /\ videoQuality = "medium"
         /\ exportResult = NoResult
         /\ errorMessage = ""
         /\ view = [images |-> given, crop |-> size,
                    wiggleSpeed |-> DEFAULT_WIGGLE_SPEED,
                    isExporting |-> TRUE, exportFormat |-> "gif",
                    gifQuality |-> "medium", videoQuality |-> "medium",
                    exportResult |-> NoResult]
         /\ objectUrls = [u \in 1..Cardinality(with) |->
                            [kind |-> "file", file |-> file(u), revoked |-> FALSE]]
         /\ loaders = {}
         /\ exports = <<
              [pc |-> "render",
               images |-> given, crop |-> size,
               exportFormat |-> "gif", gifQuality |-> "medium",
               videoQuality |-> "medium", wiggleSpeed |-> DEFAULT_WIGGLE_SPEED,
               prevUrl |-> 0,
               tasks |-> [i \in 1..n |-> "pending"],
               decodes |-> [i \in 1..n |-> i \in with /\ FileDecodes(picked[i])],
               results |-> [i \in 1..n |-> <<>>],
               surfaces |-> [i \in 1..n |-> "none"],
               settled |-> <<>>,
               frames |-> <<>>, intervalMs |-> 0, quality |-> "", args |-> <<>>,
               awaits |-> 0, index |-> 0, encoded |-> <<>>,
               encoder |-> "", written |-> 0,
               blob |-> [type |-> "", bytes |-> <<>>],
               result |-> NoGifResult, settles |-> <<>>,
               exec |-> NoAnswer, fileData |-> "",
               deletes |-> 0, swallowed |-> 0,
               error |-> "", outcome |-> ""]>>
         /\ ffmpegInstance = 0
         /\ ffmpegLoaded = FALSE
         /\ ffmpegLoadingPromise = 0
         /\ loadsPending = {}
         /\ loadCalls = 0
         /\ vfs = [name \in FileNames |-> NoFile]
         /\ uiEvents = [files |-> Cardinality(with), settings |-> 0, crops |-> 0,
                        adjusts |-> 0, refused |-> 0,
                 declined |-> 0, unmounts |-> 0]
         /\ frameIds = n

NextGenerate ==
  \/ RendersFrames
  \/ EncodesGifWell

SpecGenerate == InitGenerate /\ [][NextGenerate]_vars

\* File selection: the user picks files for the frames, also for a frame
\* that has one, while earlier picks are still being decoded.
NextSelect ==
  \/ SelectsFile
  \/ Decodes
  \/ Render

SpecSelect == Init /\ [][NextSelect]_vars

\* The life of export results: the user picks decodable files, exports GIFs
\* and clears results, and the component may unmount at any time.
NextLifecycle ==
  \/ FillsFrame({"mid"})
  \/ Render
  \/ handleExport
  \/ handleClearExport
  \/ unmount
  \/ RendersFramesWell
  \/ EncodesGifWell

SpecLifecycle == Init /\ [][NextLifecycle]_vars

\* The length of the frame list: the user picks files, adds frames and asks
\* for frames to be removed, whether or not the request can be granted.
NextFrameList ==
  \/ \E id \in 1..MaxFrames : handleFrameFileSelect(id, "mid")
  \/ ChangesFrames
  \/ DeclinesRemove
  \/ Render

SpecFrameList == Init /\ [][NextFrameList]_vars

\* The export button: the user picks files, decodable or not, and invokes
\* handleExport whether or not the rendered state allows an export.
NextValidate ==
  \/ FillsFrame({"mid", "broken"})
  \/ Decodes
  \/ Render
  \/ handleExport
  \/ handleExportReturns
  \/ RendersFramesWell
  \/ EncodesGifWell

SpecValidate == Init /\ [][NextValidate]_vars

\* ------------------------------------------------------------- claims
InFlight == {p \in DOMAIN exports : exports[p].pc # "done"}
OnVfs == {p \in DOMAIN exports : exports[p].pc \in {"write", "exec", "read", "cleanup"}}
Resolved == {p \in DOMAIN exports :
               exports[p].pc \in {"gif", "load", "write", "exec", "read", "cleanup"}}
Rejected(p) == {i \in DOMAIN exports[p].tasks :
                  exports[p].tasks[i] \notin {"pending", "fulfilled"}}
Last(seq) == seq[Len(seq)]
Occurs(args, flag) == {i \in 1..Len(args) : args[i] = flag}
Pairs(args, flag, value) ==
  /\ Cardinality(Occurs(args, flag)) = 1
  /\ \A i \in Occurs(args, flag) : i < Len(args) /\ args[i + 1] = value

\* C1: single-flight export: at most one export pipeline (generateFrames
\* followed by makeGif/makeMp4) is in flight at any time, also when
\* handleExport is invoked twice before the isExporting update is rendered.
C1_SingleFlightExport == Cardinality(InFlight) <= 1

\* C2: the engine's virtual file system is never used by two encodes at
\* once: at most one makeMp4 is between its first writeFile and the end of
\* its cleanup.
C2_ExclusiveFilesystem == Cardinality(OnVfs) <= 1

\* C3: cleanup regardless of outcome: once a makeMp4 has settled, by success
\* or by a failure at any step, no file it wrote remains in the virtual file
\* system; and when no makeMp4 is running the file system is empty.
C3_CleanupAlways ==
  /\ \A p \in DOMAIN exports : exports[p].pc = "done" =>
       \A name \in FileNames : vfs[name].owner # p
  /\ OnVfs = {} => \A name \in FileNames : vfs[name] = NoFile

C3_Witness ==
  \E p \in DOMAIN exports :
    /\ exports[p].pc = "done"
    /\ exports[p].outcome = "failed"
    /\ exports[p].written = Len(exports[p].images)
    /\ \A name \in FileNames : vfs[name] = NoFile

\* C4: order preservation: whatever the completion order of the renders,
\* generateFrames resolves to as many frames as images, the i-th being the
\* render of the i-th image.
C4_OrderPreserved ==
  \A p \in Resolved :
    /\ Len(exports[p].frames) = Len(exports[p].images)
    /\ \A i \in DOMAIN exports[p].images :
         exports[p].frames[i] = renderOf(exports[p].images[i], exports[p].crop)

C4_Witness ==
  \E p \in Resolved :
    /\ exports[p].settled = <<2, 1>>
    /\ exports[p].frames[1] # exports[p].frames[2]

\* C5: all-or-nothing frame batch: if a render fails, the export fails with
\* the error of the first render that failed, no frame array is handed on,
\* and neither makeGif nor makeMp4 is invoked in that export.
C5_AllOrNothing ==
  \A p \in DOMAIN exports : Rejected(p) # {} =>
    /\ exports[p].pc = "done"
    /\ exports[p].outcome = "failed"
    /\ exports[p].frames = <<>>
    /\ exports[p].encoder = ""
    /\ exports[p].error = exports[p].tasks[Last(exports[p].settled)]

C5_Witness ==
  \E p \in DOMAIN exports :
    /\ Rejected(p) # {}
    /\ \E i \in DOMAIN exports[p].tasks : exports[p].tasks[i] = "fulfilled"
    /\ exports[p].settled # <<>>
    /\ exports[p].tasks[exports[p].settled[1]] = "fulfilled"

\* C6: engine load is single-flight: at most one FFmpeg.load() is
\* outstanding, every caller that waits for the engine awaits that load, and
\* only one FFmpeg instance is constructed.
C6_SingleFlightLoad ==
  /\ Cardinality(loadsPending) <= 1
  /\ ffmpegInstance <= 1
  /\ \A p \in DOMAIN exports : exports[p].pc = "load" =>
       /\ exports[p].awaits \in loadsPending
       /\ exports[p].awaits = ffmpegLoadingPromise

C6_Witness ==
  /\ Cardinality({p \in DOMAIN exports : exports[p].pc = "load"}) >= 2
  /\ loadCalls = 1

\* C7: export preconditions: generateFrames is called only with at least two
\* images, all of them loaded (decoded, not merely chosen), and a crop width
\* above 0.
C7_ExportPreconditions ==
  \A p \in DOMAIN exports :
    /\ Len(exports[p].images) >= MINIMUM_FRAMES
    /\ \A i \in DOMAIN exports[p].images : exports[p].images[i].isLoaded
    /\ exports[p].crop.width > 0

\* C8: crop bound invariant: the crop handed to generateFrames is within
\* [50, smallest natural size among the images exported], in width and height.
Decodable(p) ==
  {i \in DOMAIN exports[p].images :
     /\ exports[p].images[i].objectUrl # 0
     /\ FileDecodes(objectUrls[exports[p].images[i].objectUrl].file)}
NaturalSize(p, i) == FileSize(objectUrls[exports[p].images[i].objectUrl].file)
C8_CropBound ==
  \A p \in DOMAIN exports :
    /\ exports[p].crop.width >= 50
    /\ exports[p].crop.height >= 50
    /\ \A i \in Decodable(p) :
         /\ exports[p].crop.width <= NaturalSize(p, i).width
         /\ exports[p].crop.height <= NaturalSize(p, i).height

\* C9: interval floor: whatever interval the user entered, the intervalMs
\* handed to makeGif or makeMp4 is at least 40 ms.
C9_IntervalFloor ==
  \A p \in Resolved : exports[p].intervalMs >= 40

C9_Witness ==
  \E p \in Resolved : exports[p].wiggleSpeed <= 0 /\ exports[p].intervalMs > 0

\* C10: video quality mapping: the argument list of exec holds exactly the
\* -crf/-preset pair of the requested tier (high 18/slow, medium 23/medium,
\* low 28/faster), with codec libx264, pixel format yuv420p and movflags
\* +faststart.
C10_QualityMapping ==
  \A p \in DOMAIN exports : exports[p].pc \in {"exec", "read"} =>
    LET args == exports[p].args
        tier == exports[p].videoQuality
    IN /\ Pairs(args, "-crf", IF tier = "high" THEN "18"
                              ELSE IF tier = "medium" THEN "23" ELSE "28")
       /\ Pairs(args, "-preset", IF tier = "high" THEN "slow"
                                 ELSE IF tier = "medium" THEN "medium" ELSE "faster")
       /\ Pairs(args, "-c:v", "libx264")
       /\ Pairs(args, "-pix_fmt", "yuv420p")
       /\ Pairs(args, "-movflags", "+faststart")

C10_Witness ==
  /\ \E p \in DOMAIN exports : exports[p].pc = "exec" /\ exports[p].videoQuality = "low"

\* C11: GIF result MIME: whenever makeGif resolves, the blob it returns has
\* MIME type image/gif, whatever media type the header of the encoder's data
\* URI declares or fails to declare.
GifDone == {p \in DOMAIN exports : exports[p].pc = "done" /\ exports[p].encoder = "gif"}
C11_GifMime ==
  \A p \in GifDone : exports[p].outcome = "ok" => exports[p].blob.type = "image/gif"

\* C12: GIF failure: the callback of makeGif settles the promise exactly
\* once, and makeGif rejects when the encoder reports an error, returns no
\* image, or returns a data URI without a header or without a data part.
Malformed(image) == Len(image) < 2 \/ image[1] = "" \/ image[2] = <<>>
C12_GifFailure ==
  \A p \in GifDone :
    /\ Len(exports[p].settles) = 1
    /\ (exports[p].result.error \/ Malformed(exports[p].result.image)) =>
         /\ exports[p].settles = <<"reject">>
         /\ exports[p].outcome = "failed"
         /\ exports[p].blob.type = ""

C12_Witness ==
  \E p \in GifDone :
    /\ ~exports[p].result.error
    /\ exports[p].result.image # <<>>
    /\ Malformed(exports[p].result.image)
    /\ exports[p].error = "Invalid image data."

\* C13: video failure: makeMp4 returns a video/mp4 blob only if exec returned
\* exit code 0 and readFile returned a byte buffer; when exec returns another
\* exit code, or the value read back is not a Uint8Array, makeMp4 fails and
\* returns no blob.
Mp4Settling == {p \in DOMAIN exports :
                  exports[p].encoder = "mp4" /\ exports[p].pc \in {"cleanup", "done"}}
C13_VideoFailure ==
  \A p \in Mp4Settling :
    /\ exports[p].blob.type # "" =>
         /\ exports[p].blob.type = "video/mp4"
         /\ exports[p].error = ""
         /\ exports[p].exec.thrown = "" /\ exports[p].exec.code = 0
         /\ exports[p].fileData = "bytes"
    /\ ((exports[p].exec.thrown = "" /\ exports[p].exec.code > 0)
          \/ exports[p].fileData = "string") =>
         /\ exports[p].blob.type = ""
         /\ exports[p].error # ""
         /\ exports[p].pc = "done" => exports[p].outcome = "failed"

C13_Witness ==
  \E p \in Mp4Settling :
    /\ exports[p].pc = "done"
    /\ exports[p].exec.code = 0
    /\ exports[p].fileData = "string"
    /\ exports[p].error = "Unexpected data returned from encoder."

\* C14: codec-unsupported rewriting: a makeMp4 failure caused by the engine
\* lacking libx264, be it an exception of exec or a non-zero exit code, is
\* surfaced with the message suggesting a different browser; every other
\* failure keeps its original message.
CodecMessage == "MP4 export requires H.264 support. Please try a different browser."
C14_CodecRewriting ==
  \A p \in Mp4Settling : exports[p].error # "" =>
    (exports[p].error = CodecMessage <=> ~exports[p].exec.codec)

\* C15: return to ready: every export that was started ends, by success or
\* by any failure, and the step that ends it leaves isExporting false; when
\* it ends by a failure, that step shows the failure's message, a single
\* non-empty string.
Ends(p) ==
  /\ p \in DOMAIN exports
  /\ exports[p].pc # "done"
  /\ exports'[p].pc = "done"
C15_ReturnToReady ==
  /\ \A p \in Exports :
       (p \in DOMAIN exports) ~>
         (p \in DOMAIN exports /\ exports[p].pc = "done" /\ ~isExporting)
  /\ [][\A p \in Exports : Ends(p) =>
           /\ ~isExporting'
           /\ exports'[p].outcome = "failed" =>
                (errorMessage' = exports'[p].error /\ errorMessage' # "")]_vars

C15_Witness ==
  \E p \in DOMAIN exports :
    /\ exports[p].pc = "done"
    /\ exports[p].outcome = "failed"
    /\ exports[p].encoder = "mp4"
    /\ ~isExporting
    /\ errorMessage = exports[p].error

\* C16: no partial export state on failure: the step that ends an export by
\* a failure, at whatever stage, creates no object URL and leaves
\* exportResult as it is; exportResult changes only in the step that ends an
\* export successfully or in handleClearExport.
C16_NoPartialState ==
  [][/\ \A p \in Exports : (Ends(p) /\ exports'[p].outcome = "failed") =>
          (exportResult' = exportResult /\ objectUrls' = objectUrls)
     /\ exportResult' # exportResult =>
          \/ \E p \in Exports : Ends(p) /\ exports'[p].outcome = "ok"
          \/ exportResult' = NoResult /\ exports' = exports]_vars

C16_Witness ==
  /\ exportResult.url # 0
  /\ ~objectUrls[exportResult.url].revoked
  /\ \E p \in DOMAIN exports :
       /\ exports[p].pc = "done"
       /\ exports[p].outcome = "failed"
       /\ exports[p].prevUrl = exportResult.url

\* C17: borrowed bitmap handles: while a frame render of an export is in
\* progress, the object URL it reads has not been revoked, neither by
\* replacing the frame's file nor by removing the frame.
C17_BorrowedHandles ==
  \A p \in DOMAIN exports : \A i \in DOMAIN exports[p].tasks :
    (exports[p].tasks[i] = "pending" /\ exports[p].images[i].objectUrl # 0) =>
      ~objectUrls[exports[p].images[i].objectUrl].revoked

\* C18: identity transform: for an image with scale 1, rotation 0 and offset
\* (0, 0), and a crop not larger than the image, canvas pixel (x, y) of the
\* rendered frame is source pixel (x + (naturalWidth - cropWidth) / 2,
\* y + (naturalHeight - cropHeight) / 2): the plain center crop. Checked at
\* the four corners of the canvas, which fix an affine map.
Shown(p, i, x, y) ==
  sourceOf(exports[p].frames[i][2][4], exports[p].frames[i][2][5], x, y)
Identity(p, i) ==
  /\ exports[p].images[i].adjustments = NoAdjustments
  /\ exports[p].crop.width <= NaturalSize(p, i).width
  /\ exports[p].crop.height <= NaturalSize(p, i).height
C18_IdentityTransform ==
  \A p \in Resolved : \A i \in DOMAIN exports[p].frames : Identity(p, i) =>
    \A x \in {0, exports[p].crop.width - 1}, y \in {0, exports[p].crop.height - 1} :
      /\ Shown(p, i, x, y).den > 0
      /\ 2 * Shown(p, i, x, y).x =
           (2 * x + NaturalSize(p, i).width - exports[p].crop.width) * Shown(p, i, x, y).den
      /\ 2 * Shown(p, i, x, y).y =
           (2 * y + NaturalSize(p, i).height - exports[p].crop.height) * Shown(p, i, x, y).den

C18_Witness ==
  \E p \in Resolved : \E i \in DOMAIN exports[p].frames :
    /\ Identity(p, i)
    /\ exports[p].crop.width < NaturalSize(p, i).width
    /\ exports[p].crop.height < NaturalSize(p, i).height
    /\ \E j \in DOMAIN exports[p].frames :
         exports[p].images[j].adjustments # NoAdjustments

\* C19: best-effort cleanup: a deleteFile that fails during the cleanup of
\* makeMp4 (the frame file was never written, or output.mp4 is missing) is
\* swallowed: no cleanup step changes the blob or the pipeline error that
\* makeMp4 settles with, each step tries the next file, and a makeMp4 that
\* began its cleanup ends it only after trying every frame file and output.mp4.
C19_BestEffortCleanup ==
  /\ [][\A p \in Exports : (p \in DOMAIN exports /\ exports[p].pc = "cleanup") =>
           /\ exports'[p].error = exports[p].error
           /\ exports'[p].blob.type = exports[p].blob.type
           /\ exports'[p] # exports[p] => exports'[p].deletes = exports[p].deletes + 1]_vars
  /\ [](\A p \in DOMAIN exports :
          (exports[p].pc = "done" /\ exports[p].deletes > 0) =>
             exports[p].deletes = Len(exports[p].images) + 1)

C19_Witness ==
  \E p \in DOMAIN exports :
    /\ exports[p].pc = "done"
    /\ exports[p].written = 1
    /\ exports[p].swallowed = Len(exports[p].images)
    /\ exports[p].deletes = Len(exports[p].images) + 1
    /\ exports[p].error = "FS error"

\* C20: engine state machine: the engine moves from Uninitialized to Loading
\* and from Loading to Ready, and from Loading back to Uninitialized when
\* load() fails, so that a later call loads again; once a load has succeeded
\* the engine stays Ready, no later makeMp4 calls load(), and the instance,
\* once constructed, is never replaced or reset.
EngineState ==
  IF ffmpegLoaded THEN "Ready"
  ELSE IF ffmpegLoadingPromise # 0 THEN "Loading"
  ELSE "Uninitialized"
ReadyPersists ==
  /\ ffmpegLoaded => (ffmpegLoaded' /\ loadCalls' = loadCalls)
  /\ ffmpegInstance # 0 => ffmpegInstance' = ffmpegInstance
C20_EngineStates ==
  [][/\ EngineState' # EngineState =>
          <<EngineState, EngineState'>> \in
            {<<"Uninitialized", "Loading">>, <<"Loading", "Ready">>,
             <<"Loading", "Uninitialized">>}
     /\ (EngineState = "Loading" /\ EngineState' = "Uninitialized") =>
          loadsPending' # loadsPending
     /\ ReadyPersists]_vars

C20_Witness ==
  /\ ffmpegLoaded
  /\ loadCalls = 2
  /\ ffmpegInstance = 1
  /\ \E p \in DOMAIN exports : exports[p].pc = "write"

\* C20 as stated: the engine only moves Uninitialized -> Loading -> Ready.
C20_OnlyForward ==
  [][/\ EngineState' # EngineState =>
          <<EngineState, EngineState'>> \in
            {<<"Uninitialized", "Loading">>, <<"Loading", "Ready">>}
     /\ ReadyPersists]_vars

\* C21: validation failures touch nothing: a handleExport invocation made
\* while the preconditions it checks (at least MINIMUM_FRAMES frames, every
\* frame with a file, no export under way, a positive crop width, all as of
\* the render the handler belongs to) do not hold changes none of
\* isExporting, errorMessage and exportResult, starts no generateFrames,
\* makeGif or makeMp4 and leaves the engine alone.
Invoked ==
  \/ Len(exports') > Len(exports)
  \/ uiEvents'.refused > uiEvents.refused
PreconditionsHold ==
  /\ Len(view.images) >= MINIMUM_FRAMES
  /\ \A i \in DOMAIN view.images : view.images[i].objectUrl # 0
  /\ ~view.isExporting
  /\ view.crop.width > 0
Hundredths(h) ==
  toString(h \div 100) \o "." \o
  (IF h % 100 < 10 THEN "0" ELSE "") \o toString(h % 100)
Framerate(args) == {h \in 0..3000 : args[2] = Hundredths(h)}
\* h hundredths is the nearest to max(1, 1000 / m)
Nearest(h, m) ==
  IF m >= 1000 THEN h = 100
  ELSE /\ 2 * (100000 - h * m) <= m
       /\ 2 * (h * m - 100000) <= m
C22_Framerate ==
  \A p \in DOMAIN exports :
    (exports[p].encoder = "mp4" /\ exports[p].pc \in {"exec", "read", "cleanup"}
       /\ exports[p].args # <<>>) =>
      LET m == Max2(exports[p].intervalMs, 40)
      IN /\ exports[p].args[1] = "-framerate"
         /\ Framerate(exports[p].args) # {}
         /\ \A h \in Framerate(exports[p].args) :
              /\ Nearest(h, m)
              /\ 100 <= h /\ h <= 2500
              /\ exports[p].intervalMs > 1000 => h = 100

C22_Witness ==
  /\ \E p \in DOMAIN exports :
       /\ exports[p].pc = "read"
       /\ exports[p].intervalMs = 1500
       /\ exports[p].args[2] = "1.00"

\* C23: dispatch consistency: an export started with format gif runs makeGif
\* with the GIF quality selected at its start and one started with format
\* mp4 runs makeMp4 with the video quality selected at its start; the format
\* and the file name of the export result are those of the adapter that
\* produced the blob, whatever format or quality the user selects while the
\* export is in flight.
Dispatched(e) ==
  /\ e.encoder # "" => e.encoder = e.exportFormat
  /\ (e.encoder = "gif" /\ e.pc = "gif") =>
       /\ e.quality = e.gifQuality
       /\ e.args[5] = GIF_QUALITY_SETTINGS(e.gifQuality).sampleInterval
       /\ e.args[6] = GIF_QUALITY_SETTINGS(e.gifQuality).gifQuality
  /\ (e.encoder = "mp4" /\ e.pc \in {"load", "write", "exec", "read"}) =>
       e.quality = e.videoQuality
  /\ (e.encoder = "mp4" /\ e.pc \in {"exec", "read"}) =>
       /\ Pairs(e.args, "-preset", VIDEO_QUALITY_SETTINGS(e.videoQuality).preset)
       /\ Pairs(e.args, "-crf", VIDEO_QUALITY_SETTINGS(e.videoQuality).crf)
Succeeds(p) ==
  /\ p \in DOMAIN exports
  /\ exports[p].outcome = ""
  /\ exports'[p].outcome = "ok"
C23_DispatchConsistency ==
  [][/\ Len(exports') > Len(exports) =>
          /\ Last(exports').exportFormat = view.exportFormat
          /\ Last(exports').gifQuality = view.gifQuality
          /\ Last(exports').videoQuality = view.videoQuality
     /\ \A p \in DOMAIN exports' : Dispatched(exports'[p])
     /\ \A p \in DOMAIN exports :
          /\ exports'[p].exportFormat = exports[p].exportFormat
          /\ exports'[p].gifQuality = exports[p].gifQuality
          /\ exports'[p].videoQuality = exports[p].videoQuality
          /\ Succeeds(p) =>
               /\ exportResult'.format = exports[p].encoder
               /\ exportResult'.fileName = "wigglegram." \o exports[p].encoder
               /\ exportResult'.url = Len(objectUrls')
               /\ objectUrls'[exportResult'.url].kind = "blob"]_vars

C23_Witness ==
  /\ exportFormat = "mp4"
  /\ gifQuality = "high"
  /\ exportResult.format = "gif"
  /\ exportResult.fileName = "wigglegram.gif"
  /\ Len(exports) = 1
  /\ exports[1].outcome = "ok"
  /\ exports[1].encoder = "gif"
  /\ exports[1].gifQuality = "medium"

\* C24: frame hand-off order: within one makeMp4 call, frame i is written
\* as frame_ followed by i zero-padded to three digits and .png, the writes
\* happen in increasing index order, every frame is written before exec is
\* invoked, exec is invoked at most once, and output.mp4 is read only after
\* exec returned 0.
PaddedName(i) ==
  "frame_" \o (IF i < 10 THEN "00" ELSE IF i < 100 THEN "0" ELSE "") \o
  toString(i) \o ".png"
HandsOff(p, e, next) ==
  /\ next.written # e.written =>
       /\ e.pc = "write"
       /\ e.exec = NoAnswer
       /\ next.written = e.written + 1
       /\ \E name \in DOMAIN vfs :
            /\ name = PaddedName(e.written)
            /\ vfs'[name] = [owner |-> p, data |-> e.frames[e.written + 1][2]]
            /\ \A other \in DOMAIN vfs \ {name} : vfs'[other] = vfs[other]
  /\ (e.pc # "exec" /\ next.pc = "exec") =>
       /\ e.pc = "write"
       /\ e.exec = NoAnswer
       /\ next.written = Len(e.frames)
  /\ next.exec # e.exec => (e.pc = "exec" /\ e.exec = NoAnswer)
  /\ e.exec # NoAnswer => next.pc # "exec"
  /\ (next.pc = "read" \/ next.fileData # e.fileData) =>
       (next.exec.code = 0 /\ next.exec.thrown = "")
C24_HandOffOrder ==
  [][\A p \in DOMAIN exports : HandsOff(p, exports[p], exports'[p])]_vars

C24_Witness ==
  \E p \in DOMAIN exports :
    /\ exports[p].pc = "cleanup"
    /\ exports[p].written = 2
    /\ exports[p].exec.code = 0
    /\ exports[p].fileData = "bytes"
    /\ vfs[PaddedName(0)].owner = p
    /\ vfs[PaddedName(1)].owner = p

\* C25: render failure: rendering a frame fails with an error and produces
\* no still when the image has no objectUrl (found before any canvas is
\* created), when its bitmap cannot be decoded, or when the 2D context of
\* the canvas cannot be acquired; only a frame with a decodable bitmap and
\* an acquired context yields a still.
Settles(e, next, i) == e.tasks[i] = "pending" /\ next.tasks[i] # "pending"
Renders(e, next, i) ==
  LET url == e.images[i].objectUrl
      failed == next.tasks[i] # "fulfilled"
  IN /\ url = 0 =>
          /\ next.tasks[i] = "All frames must be loaded before rendering."
          /\ next.surfaces[i] = "none"
     /\ (url # 0 /\ ~FileDecodes(objectUrls[url].file)) =>
          /\ next.tasks[i] = "Failed to load image."
          /\ next.surfaces[i] = "none"
     /\ next.surfaces[i] = "canvas" => next.tasks[i] = "Unable to render frame."
     /\ failed =>
          /\ next.tasks[i] \in {"All frames must be loaded before rendering.",
                                 "Failed to load image.", "Unable to render frame."}
          /\ next.results[i] = <<>>
          /\ next.frames = <<>>
          /\ next.encoder = ""
          /\ next.outcome = "failed"
     /\ ~failed =>
          /\ url # 0
          /\ FileDecodes(objectUrls[url].file)
          /\ next.surfaces[i] = "context"
C25_RenderFailure ==
  [][\A p \in DOMAIN exports : \A i \in DOMAIN exports[p].tasks :
       Settles(exports[p], exports'[p], i) => Renders(exports[p], exports'[p], i)]_vars

C25_Witness ==
  \E p \in DOMAIN exports :
    /\ Len(exports[p].tasks) = 3
    /\ exports[p].images[1].objectUrl = 0
    /\ exports[p].tasks[1] = "All frames must be loaded before rendering."
    /\ exports[p].tasks[2] = "Failed to load image."
    /\ exports[p].tasks[3] = "Unable to render frame."
    /\ exports[p].surfaces = <<"none", "none", "canvas">>
    /\ errorMessage = "Unable to render frame."

\* C26: decode/replace race: under every interleaving of file selections on
\* a frame and their decode callbacks, a frame with isLoaded = TRUE has the
\* natural size of the file behind its current objectUrl, and a frame
\* carries an error only when the file behind its current objectUrl does
\* not decode: the late onload/onerror of a superseded file leaves the
\* newer file alone.
CurrentFile(image) == objectUrls[image.objectUrl].file
C26_DecodeReplaceRace ==
  \A i \in DOMAIN images :
    /\ images[i].isLoaded =>
         /\ images[i].objectUrl # 0
         /\ FileDecodes(CurrentFile(images[i]))
         /\ images[i].naturalWidth = FileSize(CurrentFile(images[i])).width
         /\ images[i].naturalHeight = FileSize(CurrentFile(images[i])).height
    /\ images[i].error # "" =>
         /\ images[i].objectUrl # 0
         /\ ~FileDecodes(CurrentFile(images[i]))

\* C27: no stale frames across exports: whenever makeMp4 invokes exec, the
\* frame_NNN.png files present in the virtual file system are exactly the
\* frames of that call: frame k of the call under the k-th name, and no
\* frame file beyond the call's last frame.
InvokesExec(p) == exports[p].pc # "exec" /\ exports'[p].pc = "exec"
OwnFramesOnly(e, fs) ==
  \A k \in 0..(MaxFrames - 1) :
    IF k < Len(e.frames)
      THEN fs[FrameName(k)].data = e.frames[k + 1][2]
      ELSE fs[FrameName(k)] = NoFile
C27_NoStaleFrames ==
  [][\A p \in DOMAIN exports :
       InvokesExec(p) => OwnFramesOnly(exports[p], vfs')]_vars

\* C28: a load failure does not wedge the engine: when FFmpeg.load()
\* rejects, every makeMp4 call awaiting it fails with the error of the load
\* and the loading promise is cleared; a makeMp4 call made later starts a
\* load of its own: it neither awaits the load that failed nor goes on as
\* if the engine were ready.
LoadError == "failed to import ffmpeg-core.js"
LoadRejects(l) == l \in loadsPending /\ l \notin loadsPending' /\ ~ffmpegLoaded'
AwaitsLoad(e, l) == e.pc = "load" /\ e.awaits = l
CallsMp4(p) ==
  IF p \in DOMAIN exports
    THEN exports[p].encoder = "" /\ exports'[p].encoder = "mp4"
    ELSE exports'[p].encoder = "mp4"
C28_LoadFailureRecovers ==
  [][/\ \A l \in loadsPending : LoadRejects(l) =>
          /\ ffmpegLoadingPromise' = 0
          /\ UNCHANGED <<ffmpegInstance, vfs, loadCalls>>
          /\ \A p \in DOMAIN exports : AwaitsLoad(exports[p], l) =>
               /\ exports'[p].pc = "done"
               /\ exports'[p].outcome = "failed"
               /\ exports'[p].error = LoadError
               /\ exports'[p].written = 0
               /\ errorMessage' = LoadError
               /\ ~isExporting'
     /\ \A p \in DOMAIN exports' :
          /\ (CallsMp4(p) /\ exports'[p].pc # "done" /\ ~ffmpegLoaded
                /\ ffmpegLoadingPromise = 0) =>
               /\ loadCalls' = loadCalls + 1
               /\ ffmpegLoadingPromise' = loadCalls'
               /\ loadsPending' = loadsPending \cup {loadCalls'}
               /\ AwaitsLoad(exports'[p], loadCalls')
          /\ exports'[p].pc = "load" =>
               /\ exports'[p].awaits \in loadsPending'
               /\ exports'[p].awaits = ffmpegLoadingPromise'
          /\ exports'[p].pc \in {"write", "exec", "read"} => ffmpegLoaded']_vars

C28_Witness ==
  /\ Len(exports) = 2
  /\ exports[1].outcome = "failed"
  /\ exports[1].error = LoadError
  /\ loadCalls = 2
  /\ ~ffmpegLoaded
  /\ AwaitsLoad(exports[2], 2)
  /\ loadsPending = {2}

\* C29: export URL lifecycle: after any sequence of exports, clears and
\* unmount at most one export object URL is live (created and not revoked),
\* and a live one is the URL held in exportResult of the mounted component:
\* every URL superseded by a newer export, cleared or left at unmount has
\* been revoked.
LiveExportUrls ==
  {u \in DOMAIN objectUrls : objectUrls[u].kind = "blob" /\ ~objectUrls[u].revoked}
C29_ExportUrlLifecycle ==
  /\ Cardinality(LiveExportUrls) <= 1
  /\ \A u \in LiveExportUrls : mounted /\ exportResult.url = u

\* C30: minimum frame count: the frame list starts with 2 frames and never
\* holds fewer than 2 after any sequence of add-frame and remove-frame
\* operations; a remove request made when exactly 2 frames exist, or for an
\* id the list does not hold, leaves the list unchanged and revokes no
\* object URL.
Known(id) == \E i \in DOMAIN images : images[i].id = id
RemoveRequested == uiEvents'.declined # uiEvents.declined \/ Len(images') < Len(images)
C30_MinimumFrames ==
  /\ Len(images) = 2
  /\ [][/\ Len(images') >= 2
        /\ RemoveRequested =>
             IF Len(images) = 2 \/ uiEvents'.declined # uiEvents.declined
               THEN images' = images /\ objectUrls' = objectUrls
               ELSE /\ Len(images') = Len(images) - 1
                    /\ \E id \in 1..MaxFrames :
                         /\ Known(id)
                         /\ images' = SelectSeq(images, LAMBDA image : image.id # id)
        /\ uiEvents'.declined # uiEvents.declined =>
             \E id \in 1..MaxFrames : Len(images) = 2 \/ ~Known(id)]_vars

C30_Witness ==
  /\ uiEvents.declined = 1
  /\ frameIds = 3
  /\ Len(images) = 2
  /\ Len(view.images) = 3
  /\ \A i \in DOMAIN images :
       images[i].objectUrl # 0 /\ ~objectUrls[images[i].objectUrl].revoked
====
